---- MODULE Spec2Model ----
(***************************************************************************)
(* Model of SimpleCrawler (src/web_crawler.py): the breadth-first,         *)
(* single-domain crawl loop with its frontier (to_visit), its visited set, *)
(* the per-page result list and the pacing delay.  The network and the     *)
(* HTML parser are the environment: every fetch may fail, every fetched    *)
(* page carries one of a catalogue of link lists, every extraction may     *)
(* raise.                                                                  *)
(***************************************************************************)
EXTENDS Integers, Sequences, FiniteSets, TLC

\* ------------------------------------------------------------------ bounds
\* largest max_pages the crawler is constructed with (-1 .. MaxPages)
MaxPages == 3
\* how many times crawl() is called on one instance
MaxCalls == 2

\* ------------------------------------------------------------------- URLs
\* A URL is what urlparse() makes of it: scheme, netloc and path, each ""
\* when absent.  An href has the same shape before it is resolved.
U(s, n, p) == [scheme |-> s, netloc |-> n, path |-> p]

\* the start URLs the constructor is called with: "http://a" and
\* "http://b/p", one without scheme and host ("a/p"), one without host
\* ("file:///p"), one with a host that requests cannot fetch ("ftp://a/p")
StartUrls ==
  { U("http", "a", ""), U("http", "b", "/p"),
    U("", "", "a/p"), U("file", "", "/p"), U("ftp", "a", "/p") }

\* the delays (seconds) the constructor is called with
Delays == {0, 1}

\* urllib.parse.uses_relative / uses_netloc, restricted to the schemes used
uses_relative == {"", "http", "https", "ftp", "file"}
uses_netloc == {"", "http", "https", "ftp", "file"}

\* a path written without a leading slash ("q", "r") merged onto a base
\* whose path has at most one segment; a rooted path stays as it is
merge_path(rpath) == IF rpath = "q" THEN "/q" ELSE IF rpath = "r" THEN "/r" ELSE rpath

\* urljoin(base, url)
urljoin(base, ref) ==
  IF base = U("", "", "") THEN ref
  ELSE IF ref = U("", "", "") THEN base
  ELSE LET scheme == IF ref.scheme = "" THEN base.scheme ELSE ref.scheme IN
       IF scheme # base.scheme \/ scheme \notin uses_relative THEN ref
       ELSE IF scheme \in uses_netloc /\ ref.netloc # ""
              THEN U(scheme, ref.netloc, ref.path)
       ELSE IF ref.path = "" THEN U(scheme, base.netloc, base.path)
       ELSE U(scheme, base.netloc, merge_path(ref.path))

\* is_valid_url without the comparison with self.domain
is_valid_url_any_host(url, domain) ==
  url.netloc # "" /\ url.scheme # ""

\* is_valid_url that accepts web schemes only
is_valid_url_http_only(url, domain) ==
  url.netloc # "" /\ url.scheme \in {"http", "https"} /\ url.netloc = domain

\* is_valid_url(url) of a crawler whose self.domain is domain
is_valid_url(url, domain) ==
  url.netloc # "" /\ url.scheme # "" /\ url.netloc = domain

\* get_links without the is_valid_url filter
RECURSIVE get_links_unfiltered(_, _, _)
get_links_unfiltered(url, html, domain) ==
  IF html = <<>> THEN <<>>
  ELSE <<urljoin(url, Head(html))>> \o get_links_unfiltered(url, Tail(html), domain)

\* get_links(url, html): the hrefs of the page in document order, made
\* absolute, the ones that are not valid dropped
RECURSIVE get_links(_, _, _)
get_links(url, html, domain) ==
  IF html = <<>> THEN <<>>
  ELSE LET absolute_url == urljoin(url, Head(html)) IN
       (IF is_valid_url(absolute_url, domain) THEN <<absolute_url>> ELSE <<>>)
         \o get_links(url, Tail(html), domain)

\* requests.get(url) raises MissingSchema, InvalidSchema or InvalidURL (all
\* RequestException) unless the URL is http(s) with a host
can_succeed(url) == url.scheme \in {"http", "https"} /\ url.netloc # ""

\* -------------------------------------------------------------- the pages
\* the <a href> lists a fetched page may carry, in document order
Pages ==
  { <<>>,
    << U("", "", "/p"), U("", "", "/q") >>,
    << U("", "", "r") >>,
    << U("", "", ""), U("", "", "/p") >>,
    << U("", "", "/q"), U("http", "a", "/q"), U("", "a", "/q") >>,
    << U("", "", "/p"), U("http", "b", "/p"), U("", "", "/q") >>,
    << U("http", "a", ""), U("ftp", "a", "/p"), U("mailto", "", "x") >>,
    << U("http", "www.a", "/p"), U("http", "A", "/p"), U("", "", "/r") >>,
    << U("", "", "/r"), U("", "", "/q"), U("", "", "/p") >>,
    << U("http", "", "/q"), U("", "b", "/p") >> }

\* ------------------------------------------------------------------ state
VARIABLES
  start_url,   \* self.start_url
  max_pages,   \* self.max_pages
  delay,       \* self.delay
  domain,      \* self.domain
  visited,     \* self.visited
  to_visit,    \* self.to_visit, head first
  pages_data,  \* the list crawl() builds and returns
  url,         \* the URL popped by the current iteration
  html,        \* the hrefs of the response being processed
  pc,          \* "idle", "loop", "try", "extract", "done"
  calls,       \* number of crawl() calls made so far
  events,      \* log: every time.sleep and every requests.get, in order
  enqueued     \* log: every URL ever put into to_visit, in order

vars == << start_url, max_pages, delay, domain, visited, to_visit, pages_data,
           url, html, pc, calls, events, enqueued >>

Range(s) == { s[i] : i \in DOMAIN s }

\* __init__(start_url, max_pages, delay)
Init ==
  /\ start_url \in StartUrls
  /\ max_pages \in (-1)..MaxPages
  /\ delay \in Delays
  /\ domain = start_url.netloc
  /\ visited = {}
  /\ to_visit = << start_url >>
  /\ pages_data = <<>>
  /\ url = U("", "", "")
  /\ html = <<>>
  /\ pc = "idle"
  /\ calls = 0
  /\ events = <<>>
  /\ enqueued = << start_url >>

\* the loop test without the page limit
loop_condition_frontier_only(q, v, m) == q # <<>>

\* the loop test with an off-by-one page limit
loop_condition_le(q, v, m) == q # <<>> /\ Cardinality(v) <= m

\* the test of the while loop
loop_condition(q, v, m) == q # <<>> /\ Cardinality(v) < m

\* log entries: time.sleep(d) made before the request for u, and the
\* request for u with its outcome and the links of the page it returned
Sleep(u, d) == [op |-> "sleep", url |-> u, ok |-> FALSE, body |-> <<>>, secs |-> d]
Get(u, ok, body) == [op |-> "get", url |-> u, ok |-> ok, body |-> body, secs |-> 0]

\* pacing that also sleeps before the first request
pace_always(ev, v, u, d) == Append(ev, Sleep(u, d))

\* "if self.visited: time.sleep(self.delay)": the log after the pacing step
pace(ev, v, u, d) == IF v # {} THEN Append(ev, Sleep(u, d)) ELSE ev

\* the for loop with appendleft in place of append
RECURSIVE add_links_appendleft(_, _, _)
add_links_appendleft(q, v, links) ==
  IF links = <<>> THEN q
  ELSE LET link == Head(links) IN
       add_links_appendleft(
         IF link \notin v /\ link \notin Range(q) THEN <<link>> \o q ELSE q,
         v, Tail(links))

\* the for loop without "link not in self.to_visit"
RECURSIVE add_links_no_queue_check(_, _, _)
add_links_no_queue_check(q, v, links) ==
  IF links = <<>> THEN q
  ELSE LET link == Head(links) IN
       add_links_no_queue_check(
         IF link \notin v THEN Append(q, link) ELSE q, v, Tail(links))

\* the for loop without "link not in self.visited"
RECURSIVE add_links_no_visited_check(_, _, _)
add_links_no_visited_check(q, v, links) ==
  IF links = <<>> THEN q
  ELSE LET link == Head(links) IN
       add_links_no_visited_check(
         IF link \notin Range(q) THEN Append(q, link) ELSE q, v, Tail(links))

\* the for loop that adds the new links to the frontier
RECURSIVE add_links(_, _, _)
add_links(q, v, links) ==
  IF links = <<>> THEN q
  ELSE LET link == Head(links) IN
       add_links(IF link \notin v /\ link \notin Range(q) THEN Append(q, link) ELSE q,
                 v, Tail(links))

\* the get events of a log, and the URLs they were made for
Gets(ev) == SelectSeq(ev, LAMBDA e : e.op = "get")
GetUrls(ev) == [i \in DOMAIN Gets(ev) |-> Gets(ev)[i].url]

\* the longest link list a page carries
PageLen == CHOOSE n \in 0..8 : (\A p \in Pages : Len(p) <= n) /\ (\E p \in Pages : Len(p) = n)
\* no crawl makes this many requests: one per URL ever enqueued at most
AttemptCap == 2 + MaxPages * PageLen

\* the elements of links that are in the set s, each once, in the order of
\* their first occurrence
RECURSIVE first_in(_, _)
first_in(links, s) ==
  IF links = <<>> THEN <<>>
  ELSE (IF Head(links) \in s THEN <<Head(links)>> ELSE <<>>)
         \o first_in(Tail(links), s \ {Head(links)})

\* ---------------------------------------------------------------- actions
\* crawl() that sets up the frontier and the visited set at every call
CallCrawl_reinit ==
  /\ pc \in {"idle", "done"}
  /\ calls < MaxCalls
  /\ calls' = calls + 1
  /\ pages_data' = <<>>
  /\ visited' = {}
  /\ to_visit' = << start_url >>
  /\ pc' = "loop"
  /\ UNCHANGED << start_url, max_pages, delay, domain, url, html, events, enqueued >>

\* crawl() is entered: pages_data = []
CallCrawl ==
  /\ pc \in {"idle", "done"}
  /\ calls < MaxCalls
  /\ calls' = calls + 1
  /\ pages_data' = <<>>
  /\ pc' = "loop"
  /\ UNCHANGED << start_url, max_pages, delay, domain, visited, to_visit, url, html,
                  events, enqueued >>

\* the loop body reading to_visit[0] without removing it
Dequeue_peek ==
  /\ pc = "loop"
  /\ loop_condition(to_visit, visited, max_pages)
  /\ url' = Head(to_visit)
  /\ pc' = IF Head(to_visit) \in visited THEN "loop" ELSE "try"
  /\ UNCHANGED << start_url, max_pages, delay, domain, visited, to_visit, pages_data,
                  html, calls, events, enqueued >>

\* the loop test holds: popleft, then the "already visited" test
Dequeue ==
  /\ pc = "loop"
  /\ loop_condition(to_visit, visited, max_pages)
  /\ url' = Head(to_visit)
  /\ to_visit' = Tail(to_visit)
  /\ pc' = IF Head(to_visit) \in visited THEN "loop" ELSE "try"
  /\ UNCHANGED << start_url, max_pages, delay, domain, visited, pages_data, html,
                  calls, events, enqueued >>

\* the loop test fails: crawl() returns pages_data
Return ==
  /\ pc = "loop"
  /\ ~ loop_condition(to_visit, visited, max_pages)
  /\ pc' = "done"
  /\ UNCHANGED << start_url, max_pages, delay, domain, visited, to_visit, pages_data,
                  url, html, calls, events, enqueued >>

\* a failed request that marks the URL visited all the same
FetchFail_marks_visited ==
  /\ pc = "try"
  /\ Len(Gets(events)) < AttemptCap
  /\ events' = Append(pace(events, visited, url, delay), Get(url, FALSE, <<>>))
  /\ visited' = visited \cup {url}
  /\ pc' = "loop"
  /\ UNCHANGED << start_url, max_pages, delay, domain, to_visit, pages_data,
                  url, html, calls, enqueued >>

\* a failed request that puts the URL back at the tail of the frontier
FetchFail_requeues ==
  /\ pc = "try"
  /\ Len(Gets(events)) < AttemptCap
  /\ events' = Append(pace(events, visited, url, delay), Get(url, FALSE, <<>>))
  /\ to_visit' = Append(to_visit, url)
  /\ enqueued' = Append(enqueued, url)
  /\ pc' = "loop"
  /\ UNCHANGED << start_url, max_pages, delay, domain, visited, pages_data,
                  url, html, calls >>

\* the pacing sleep, then requests.get / raise_for_status raises a
\* RequestException, which the first except clause swallows
FetchFail ==
  /\ pc = "try"
  /\ Len(Gets(events)) < AttemptCap
  /\ events' = Append(pace(events, visited, url, delay), Get(url, FALSE, <<>>))
  /\ pc' = "loop"
  /\ UNCHANGED << start_url, max_pages, delay, domain, visited, to_visit, pages_data,
                  url, html, calls, enqueued >>

\* the pacing sleep, then the request succeeds: the URL is marked visited
FetchOk ==
  /\ pc = "try"
  /\ Len(Gets(events)) < AttemptCap
  /\ can_succeed(url)
  /\ \E body \in Pages :
       /\ events' = Append(pace(events, visited, url, delay), Get(url, TRUE, body))
       /\ html' = body
  /\ visited' = visited \cup {url}
  /\ pc' = "extract"
  /\ UNCHANGED << start_url, max_pages, delay, domain, to_visit, pages_data, url,
                  calls, enqueued >>

\* extraction counting the distinct links (len(set(links)))
ExtractOk_counts_distinct ==
  /\ pc = "extract"
  /\ LET links == get_links(url, html, domain) IN
       /\ pages_data' = Append(pages_data,
                                [url |-> url, links_found |-> Cardinality(Range(links))])
       /\ to_visit' = add_links(to_visit, visited, links)
       /\ enqueued' = enqueued \o first_in(links, Range(to_visit') \ Range(to_visit))
  /\ pc' = "loop"
  /\ UNCHANGED << start_url, max_pages, delay, domain, visited, url, html, calls, events >>

\* extraction putting the record at the front of the list (insert(0, ...))
ExtractOk_prepends ==
  /\ pc = "extract"
  /\ LET links == get_links(url, html, domain) IN
       /\ pages_data' = <<[url |-> url, links_found |-> Len(links)]>> \o pages_data
       /\ to_visit' = add_links(to_visit, visited, links)
       /\ enqueued' = enqueued \o first_in(links, Range(to_visit') \ Range(to_visit))
  /\ pc' = "loop"
  /\ UNCHANGED << start_url, max_pages, delay, domain, visited, url, html, calls, events >>

\* extraction succeeds: the record is appended, the new links are enqueued
ExtractOk ==
  /\ pc = "extract"
  /\ LET links == get_links(url, html, domain) IN
       /\ pages_data' = Append(pages_data, [url |-> url, links_found |-> Len(links)])
       /\ to_visit' = add_links(to_visit, visited, links)
       /\ enqueued' = enqueued \o first_in(links, Range(to_visit') \ Range(to_visit))
  /\ pc' = "loop"
  /\ UNCHANGED << start_url, max_pages, delay, domain, visited, url, html, calls, events >>

\* an extraction error that takes the URL out of the visited set again
ExtractErr_unmarks ==
  /\ pc = "extract"
  /\ visited' = visited \ {url}
  /\ pc' = "loop"
  /\ UNCHANGED << start_url, max_pages, delay, domain, to_visit, pages_data,
                  url, html, calls, events, enqueued >>

\* extract_text, get_links or the title lookup raises: the second except
\* clause swallows it, after visited.add and before pages_data.append
ExtractErr ==
  /\ pc = "extract"
  /\ pc' = "loop"
  /\ UNCHANGED << start_url, max_pages, delay, domain, visited, to_visit, pages_data,
                  url, html, calls, events, enqueued >>

Next ==
  \/ CallCrawl
  \/ Dequeue
  \/ Return
  \/ FetchFail
  \/ FetchOk
  \/ ExtractOk
  \/ ExtractErr

Spec == Init /\ [][Next]_vars

\* the interpreter runs the single control flow until crawl() has returned
FairSpec == Spec /\ WF_vars(Next)

TypeOK ==
  /\ pc \in {"idle", "loop", "try", "extract", "done"}
  /\ calls \in 0..MaxCalls
  /\ Len(Gets(events)) < AttemptCap

\* ----------------------------------------------------------------- claims
NoDup(s) == \A i, j \in DOMAIN s : i # j => s[i] # s[j]
RecordUrls == { pages_data[i].url : i \in DOMAIN pages_data }
Failed(e) == e.op = "get" /\ ~ e.ok
Fetched(e) == e.op = "get" /\ e.ok

\* C1: with max_pages >= 1 the visited set never holds more than max_pages
\* URLs, and crawl() returns only with the limit reached or the frontier
\* empty.
C1_PageLimit ==
  max_pages >= 1 =>
    /\ Cardinality(visited) <= max_pages
    /\ pc = "done" => (Cardinality(visited) = max_pages \/ to_visit = <<>>)

\* crawl() has returned on the page limit with URLs still queued
C1_Witness ==
  /\ pc = "done" /\ max_pages >= 1
  /\ Cardinality(visited) = max_pages /\ to_visit # <<>>

\* C2: a failed fetch changes neither the visited set nor the results nor
\* the frontier, and hands control back to the loop test; the iteration it
\* ends changed the frontier only by popping its head.
C2_FailedFetchSkips ==
  [][ /\ (Len(events') > Len(events) /\ Failed(events'[Len(events')])) =>
           /\ visited' = visited
           /\ pages_data' = pages_data
           /\ to_visit' = to_visit
           /\ enqueued' = enqueued
           /\ pc' = "loop"
      /\ (pc = "loop" /\ pc' = "try") =>
           /\ to_visit = <<url'>> \o to_visit'
           /\ visited' = visited
           /\ pages_data' = pages_data ]_vars

\* a fetch failed and the loop went on to fetch a later frontier entry
C2_Witness ==
  \E i, j \in DOMAIN events :
    i < j /\ Failed(events[i]) /\ Fetched(events[j])

\* C3: every call of crawl() reaches the loop exit, whatever the fetch and
\* extraction outcomes.
C3_Terminates == (pc = "loop") ~> (pc = "done")

\* crawl() has returned after a failed fetch and a failed extraction
C3_Witness ==
  /\ pc = "done"
  /\ \E e \in Range(events) : Failed(e)
  /\ \E u \in visited : u \notin RecordUrls

\* C4 as stated: a URL whose fetch failed is not fetched again and is not
\* in the frontier again.
C4_NoRetry_Original ==
  \A i \in DOMAIN events :
    Failed(events[i]) =>
      /\ events[i].url \notin Range(to_visit)
      /\ \A j \in DOMAIN events : (j > i /\ events[j].op = "get") => events[j].url # events[i].url

\* C4 (amended): a URL whose fetch failed comes back into the frontier only
\* in the step that extracts a successfully fetched page linking to it; the
\* failing iteration itself does not put it back.
C4_RetryOnlyOnRediscovery ==
  [][ \A i \in DOMAIN events' :
        ( /\ Failed(events'[i])
          /\ events'[i].url \in Range(to_visit')
          /\ events'[i].url \notin Range(to_visit) )
        => /\ pc = "extract"
           /\ Len(pages_data') = Len(pages_data) + 1
           /\ events'[i].url \in Range(get_links(url, html, domain)) ]_vars

\* a URL whose fetch failed has been requested a second time
C4_Witness ==
  \E i, j \in DOMAIN events :
    i < j /\ Failed(events[i]) /\ events[j].op = "get" /\ events[j].url = events[i].url

\* the scenario of C5: http://a links to /p then /q, and /p links to /r
ScS == U("http", "a", "")
ScA == U("http", "a", "/p")
ScB == U("http", "a", "/q")
ScC == U("http", "a", "/r")
ScOrder == << ScS, ScA, ScB, ScC >>
ScStartBody == << U("", "", "/p"), U("", "", "/q") >>
ScABody == << U("", "", "r") >>
\* the start page was fetched with the scenario's links and extracted
ScStarted ==
  /\ start_url = ScS /\ max_pages >= 3
  /\ Gets(events) # <<>>
  /\ Gets(events)[1] = Get(ScS, TRUE, ScStartBody)
  /\ ScS \in RecordUrls

\* the scenario with nothing going wrong: every request made succeeded,
\* every page fetched was extracted, A carried its link to C and the other
\* pages carried none
ScAllWell ==
  /\ ScStarted
  /\ \A e \in Range(events) : e.op = "get" =>
       /\ Fetched(e)
       /\ e.url = ScA => e.body = ScABody
       /\ e.url \notin {ScS, ScA} => e.body = <<>>
  /\ visited = RecordUrls

\* C5 as stated: in the scenario with max_pages >= 3 the requests made by
\* a crawl are start, A, B, C.
C5_FourAttempts_Original ==
  (pc = "done" /\ ScAllWell) => GetUrls(events) = ScOrder

\* C5 (amended): requests are made in the order in which the URLs were
\* enqueued (the URLs requested, the one in hand and the frontier make up
\* the enqueue log, whose entries of one page are in page order); in the
\* scenario the requests go start, A, B, C in this order as far as the
\* crawl gets, C after A and B.
C5_BreadthFirst ==
  /\ GetUrls(events) \o (IF pc = "try" THEN <<url>> ELSE <<>>) \o to_visit = enqueued
  /\ ScStarted =>
       LET g == Gets(events) IN
       /\ \A i \in DOMAIN g : i <= 3 => g[i].url = ScOrder[i]
       /\ \A k \in DOMAIN g : g[k].url = ScC =>
             \E i, j \in 1..(k-1) : g[i].url = ScA /\ g[j].url = ScB
       /\ (Len(g) >= 4 /\ g[2] = Get(ScA, TRUE, ScABody) /\ ScA \in RecordUrls)
             => g[4].url = ScC

\* the scenario ran to its fourth request: start, A, B, C
C5_Witness ==
  /\ ScStarted
  /\ GetUrls(events) = ScOrder
  /\ Gets(events)[2] = Get(ScA, TRUE, ScABody)

\* the scope predicate as the specification words it, over the host of the
\* start URL
inScope(candidate) ==
  /\ candidate.scheme # ""
  /\ candidate.netloc # ""
  /\ candidate.netloc = start_url.netloc

\* C6 as stated: every URL ever put into the frontier, the start URL
\* included, has a scheme, a host, and the host of the start URL.
C6_AllEnqueuedInScope_Original ==
  \A i \in DOMAIN enqueued : inScope(enqueued[i])

\* C6 (amended): every URL the crawl loop appends to the frontier is in
\* scope; the start URL is enqueued unchecked and is in scope exactly when
\* it has a scheme and a host.
C6_AppendedInScope ==
  /\ \A i \in DOMAIN enqueued : i > 1 => inScope(enqueued[i])
  /\ enqueued[1] = start_url
  /\ inScope(start_url) <=> (start_url.scheme # "" /\ start_url.netloc # "")

\* a page carrying an out-of-scope link was extracted and links of it were
\* appended
C6_Witness ==
  /\ Len(enqueued) >= 3
  /\ \E e \in Range(events) :
       /\ Fetched(e) /\ e.url \in RecordUrls
       /\ \E k \in DOMAIN e.body : ~ inScope(urljoin(e.url, e.body[k]))

\* C7: the URL of every record of the results is in scope.
C7_RecordsInScope ==
  \A i \in DOMAIN pages_data : inScope(pages_data[i].url)

\* crawl() returned two records or more after a page offered a link to a
\* fetchable URL on another host
C7_Witness ==
  /\ pc = "done" /\ Len(pages_data) >= 2
  /\ \E e \in Range(events) :
       /\ Fetched(e) /\ e.url \in RecordUrls
       /\ \E k \in DOMAIN e.body :
            LET l == urljoin(e.url, e.body[k]) IN
            l.scheme = "http" /\ l.netloc \notin {"", start_url.netloc}

\* C8: the step that extracts a page appends to the tail of the frontier
\* exactly the links of the page that are neither visited nor queued, each
\* once; the frontier never holds a URL twice.
C8_EnqueueIffNew ==
  /\ [](NoDup(to_visit))
  /\ [][ Len(pages_data') = Len(pages_data) + 1 =>
          LET links == get_links(url, html, domain)
              added == SubSeq(to_visit', Len(to_visit) + 1, Len(to_visit'))
          IN /\ Len(to_visit') >= Len(to_visit)
             /\ SubSeq(to_visit', 1, Len(to_visit)) = to_visit
             /\ NoDup(added)
             /\ Range(added) =
                  { l \in Range(links) : l \notin visited /\ l \notin Range(to_visit) } ]_vars

\* a page listing one link several times was extracted and the link queued
C8_Witness ==
  \E e \in Range(events) :
    /\ Fetched(e) /\ e.url \in RecordUrls
    /\ ~ NoDup(get_links(e.url, e.body, domain))
    /\ \E l \in Range(get_links(e.url, e.body, domain)) : l \in Range(to_visit)

\* C9: a visited page that links to itself is not in the frontier again, no
\* URL is fetched successfully twice, and the records have distinct URLs.
C9_AtMostOnce ==
  /\ \A e \in Range(events) :
       (Fetched(e) /\ e.url \in Range(get_links(e.url, e.body, domain)))
         => e.url \notin Range(to_visit)
  /\ \A i, j \in DOMAIN events :
       (i # j /\ Fetched(events[i]) /\ Fetched(events[j])) => events[i].url # events[j].url
  /\ \A i, j \in DOMAIN pages_data : i # j => pages_data[i].url # pages_data[j].url

\* crawl() returned after extracting a page that links to itself and going
\* on to another page
C9_Witness ==
  /\ pc = "done" /\ Len(pages_data) >= 2
  /\ \E e \in Range(events) :
       /\ Fetched(e) /\ e.url \in RecordUrls
       /\ e.url \in Range(get_links(e.url, e.body, domain))

\* C10: the first request is preceded by nothing, every later request by
\* exactly one sleep of self.delay seconds, and every sleep is followed by
\* its request.
C10_Pacing ==
  \A i \in DOMAIN events :
    /\ events[i].op = "get" =>
         IF \E j \in 1..(i-1) : events[j].op = "get"
           THEN /\ events[i-1] = Sleep(events[i].url, delay)
                /\ events[i-2].op = "get"
           ELSE i = 1
    /\ events[i].op = "sleep" =>
         (i < Len(events) /\ events[i+1].op = "get")

\* a request failed and a later request was made after a sleep
C10_Witness ==
  \E i, j \in DOMAIN events :
    /\ i < j /\ Failed(events[i])
    /\ events[j].op = "get" /\ events[j-1].op = "sleep"

\* C11: when the request for the start URL fails, it is the only request
\* of the crawl, no sleep is made, and crawl() goes straight to its return
\* with no record, nothing visited and nothing queued, whatever max_pages.
C11_StartFetchFails ==
  (Gets(events) # <<>> /\ Failed(Gets(events)[1])) =>
    /\ Len(events) = 1
    /\ events[1].url = start_url
    /\ pages_data = <<>>
    /\ visited = {}
    /\ to_visit = <<>>
    /\ pc \in {"loop", "done"}

\* crawl() returned after the request for the start URL failed, with a page
\* limit that left room for more pages
C11_Witness ==
  /\ pc = "done" /\ max_pages >= 2
  /\ Gets(events) # <<>> /\ Failed(Gets(events)[1])

\* C12: the records are in the order in which their URLs were requested
\* (each record has its successful request, and of two records the earlier
\* one was requested earlier); within one call of crawl() the list only
\* grows at its tail.
C12_RecordsInFetchOrder ==
  /\ [](LET g == Gets(events) IN
        /\ \A i \in DOMAIN pages_data :
             \E a \in DOMAIN g : Fetched(g[a]) /\ g[a].url = pages_data[i].url
        /\ \A i, j \in DOMAIN pages_data : i < j =>
             \E a, b \in DOMAIN g :
               /\ a < b
               /\ Fetched(g[a]) /\ g[a].url = pages_data[i].url
               /\ Fetched(g[b]) /\ g[b].url = pages_data[j].url)
  /\ [][ calls' = calls =>
           /\ Len(pages_data') >= Len(pages_data)
           /\ SubSeq(pages_data', 1, Len(pages_data)) = pages_data ]_vars

\* crawl() returned three records with a failed request among the requests
C12_Witness ==
  /\ pc = "done" /\ Len(pages_data) >= 3
  /\ \E e \in Range(events) : Failed(e)

\* the candidate URLs of C13: every scheme, host and path below, among them
\* a subdomain, another spelling of the host and the host with a port
Candidates ==
  { U(s, n, p) : s \in {"", "http", "https", "ftp", "mailto"},
                 n \in {"", "a", "b", "www.a", "A", "a:80"},
                 p \in {"", "/p"} }

Sc14Body == << U("", "", "/p"), U("http", "b", "/p"), U("", "", "/q") >>
\* the start page http://a was fetched with these links and extracted
Sc14Started ==
  /\ start_url = ScS
  /\ Gets(events) # <<>> /\ Gets(events)[1] = Get(ScS, TRUE, Sc14Body)
  /\ pages_data # <<>> /\ pages_data[1].url = ScS

\* C14 as stated: links_found is the number of distinct in-scope links of
\* the page.
C14_SetSize_Original ==
  \A i \in DOMAIN pages_data : \A e \in Range(events) :
    (Fetched(e) /\ e.url = pages_data[i].url) =>
      pages_data[i].links_found =
        Cardinality({ l \in { urljoin(e.url, e.body[k]) : k \in DOMAIN e.body } : inScope(l) })

\* C14 (amended): links_found is the number of hrefs of the page that
\* resolve to an in-scope URL, an in-scope URL written k times counting k
\* times and out-of-scope links not at all; the scenario's start page has
\* links_found = 2 and with max_pages = 3 at most two records follow it.
C14_LinksFound ==
  /\ \A i \in DOMAIN pages_data : \A e \in Range(events) :
       (Fetched(e) /\ e.url = pages_data[i].url) =>
         pages_data[i].links_found =
           Cardinality({ k \in DOMAIN e.body : inScope(urljoin(e.url, e.body[k])) })
  /\ Sc14Started =>
       /\ pages_data[1].links_found = 2
       /\ max_pages = 3 => Len(pages_data) <= 3

\* the scenario ran to its end with both same-domain links fetched
C14_Witness ==
  /\ pc = "done" /\ max_pages = 3
  /\ Sc14Started
  /\ Len(pages_data) = 3
  /\ RecordUrls = {ScS, ScA, ScB}

\* the step in which the extraction of the fetched page raises
ExtractionRaises == pc = "extract" /\ pc' = "loop" /\ pages_data' = pages_data

\* C15 as stated: a page whose extraction raises gets no record, none of
\* its links is enqueued, its URL is not in the visited set, and the loop
\* goes on.
C15_NotVisited_Original ==
  [][ ExtractionRaises =>
        /\ to_visit' = to_visit
        /\ url \notin visited'
        /\ pc' = "loop" ]_vars

\* C15 (amended): a page whose extraction raises gets no record and none
\* of its links is enqueued, and the loop goes on; its URL, inserted when the
\* request succeeded, stays in the visited set and counts toward max_pages.
C15_ExtractionErrorKeepsVisited ==
  [][ ExtractionRaises =>
        /\ to_visit' = to_visit
        /\ enqueued' = enqueued
        /\ events' = events
        /\ visited' = visited
        /\ url \in visited'
        /\ url \notin RecordUrls
        /\ pc' = "loop" ]_vars

\* the first crawl() returned on the page limit with URLs still queued and
\* fewer records than max_pages, a page whose extraction raised having
\* taken one of the places
C15_Witness ==
  /\ pc = "done" /\ calls = 1
  /\ Cardinality(visited) = max_pages
  /\ Len(pages_data) < max_pages
  /\ to_visit # <<>>

\* the URLs requested successfully so far
FetchedUrls == { e.url : e \in { x \in Range(events) : Fetched(x) } }

\* C16 as stated: between iterations of the first crawl() the URLs of the
\* records are the visited set, and at its return there are as many records
\* as visited URLs.
C16_RecordsEqualVisited_Original ==
  (calls = 1 /\ pc \in {"loop", "done"}) =>
    /\ RecordUrls = visited
    /\ pc = "done" => Len(pages_data) = Cardinality(visited)

\* C16 (amended): the stopping condition counts the pages fetched
\* successfully, extracted or not: between iterations the visited set is the
\* set of URLs requested successfully, the URLs of the records of the first
\* crawl() are among them, one record each, so that there are at most as
\* many records as visited URLs; a successful extraction gives the page its
\* record and leaves the other visited URLs without a record as they were.
C16_RecordsWithinVisited ==
  /\ []((pc \in {"loop", "done"}) =>
          /\ visited = FetchedUrls
          /\ calls = 1 =>
               /\ RecordUrls \subseteq visited
               /\ Len(pages_data) = Cardinality(RecordUrls)
               /\ Len(pages_data) <= Cardinality(visited))
  /\ [][ (calls = 1 /\ pc = "extract" /\ pc' = "loop" /\ ~ ExtractionRaises) =>
           visited' \ RecordUrls' = (visited \ RecordUrls) \ {url} ]_vars

\* the first crawl() returned after a failed request, with records and with
\* one visited URL more than records
C16_Witness ==
  /\ pc = "done" /\ calls = 1
  /\ Len(pages_data) >= 1
  /\ Cardinality(visited) = Len(pages_data) + 1
  /\ \E e \in Range(events) : Failed(e)

\* C17: with max_pages < 1 no request and no sleep is ever made, the
\* results are empty, the visited set stays empty and the frontier stays
\* [start_url]: the loop body never runs.
C17_NoOpCrawl ==
  max_pages < 1 =>
    /\ events = <<>>
    /\ pages_data = <<>>
    /\ visited = {}
    /\ to_visit = << start_url >>
    /\ pc \in {"idle", "loop", "done"}

\* crawl() returned on an instance constructed with max_pages < 1
C17_Witness == pc = "done" /\ max_pages < 1 /\ calls >= 1

\* C18: no URL is both queued and visited, so the URL popped is never a
\* visited one: every popleft goes on to a request (never to "continue"),
\* and the URLs popped so far are the URLs requested plus the one in hand.
C18_FrontierVisitedDisjoint ==
  /\ [](/\ Range(to_visit) \cap visited = {}
        /\ pc = "try" => url \notin visited
        /\ Len(enqueued) - Len(to_visit)
             = Len(Gets(events)) + (IF pc = "try" THEN 1 ELSE 0))
  /\ [][ (pc = "loop" /\ Len(to_visit') = Len(to_visit) - 1) =>
           /\ url' = Head(to_visit)
           /\ url' \notin visited
           /\ pc' = "try" ]_vars

\* crawl() returned after extracting a page, other than the start page,
\* that links back to the visited start page
C18_Witness ==
  /\ pc = "done"
  /\ start_url \in visited
  /\ \E e \in Range(events) :
       /\ Fetched(e) /\ e.url \in RecordUrls /\ e.url # start_url
       /\ \E k \in DOMAIN e.body : urljoin(e.url, e.body[k]) = start_url

\* C19: once crawl() has returned, a further call makes no request and no
\* sleep, changes neither the visited set nor the frontier, and returns an
\* empty list.
C19_SecondCallNoOp ==
  /\ [](calls >= 2 => (pages_data = <<>> /\ pc \in {"loop", "done"}))
  /\ [][ ((calls >= 1 /\ pc = "done") \/ calls >= 2) =>
           /\ visited' = visited
           /\ to_visit' = to_visit
           /\ events' = events
           /\ pages_data' = <<>> ]_vars

\* a second crawl() returned on an instance whose first crawl() had visited
\* pages and left URLs queued
C19_Witness ==
  /\ pc = "done" /\ calls = 2
  /\ visited # {}
  /\ to_visit # <<>>

====
